---- MODULE Spec2Model ----
(***************************************************************************)
(* paperloom: the category taxonomy, the SQLite-backed paper repository,   *)
(* the unit of work, the ingestion services and the source adapters (RSS   *)
(* feed, JSON file, taxonomy page).                                        *)
(*                                                                         *)
(* Representation.  A Python str that names a category is modelled as the  *)
(* sequence of its maximal '.'-free segments: "physics.chem-ph" is         *)
(* <<"physics", "chem-ph">> and "chem-ph" is <<"chem-ph">>.  None is NULL. *)
(* A Python set whose elements compare by a key (Category by identifier,   *)
(* Paper and PaperDTO by arxiv_id) is a TLA+ set of records holding at     *)
(* most one record per key.  A table is the set of its rows.               *)
(***************************************************************************)
EXTENDS Integers, Sequences, FiniteSets, TLC

VARIABLES db, session, scope, calls, foreign_keys, last, rss, json, conv, page

vars == <<db, session, scope, calls, foreign_keys, last, rss, json, conv, page>>

NULL == "<None>"

(***************************************************************************)
(* Bounds of the model.                                                    *)
(***************************************************************************)
\* largest rowid handed out in the category table
MaxCategoryId == 2
\* largest rowid handed out in the paper table
MaxPaperId == 2
\* largest batch handed to one repository call
MaxBatch == 2
\* most repository calls a caller makes inside one scope
MaxCalls == 2
\* largest rowid handed out in the category table while the services run
MaxTaxonomyId == 3
\* config.DATABASE_CHUNK_SIZE (an environment setting; 5000 when unset)
DATABASE_CHUNK_SIZE == 1
\* RSSPaperExtractor.RSS_FEED_LIMIT, the cap of one feed response (2000 in
\* the source), scaled down
RSS_FEED_LIMIT == 2

\* the number of fetches one run of fetch_latest is followed for (more than
\* any run over the categories of the model issues)
MaxFetches == 16

\* the days of the month papers are dated on
MaxDay == 6

\* the number of '.'-separated parts of a category string
MaxParts == 3

\* the number of h2, h3, h4 and p elements of the taxonomy page
MaxElements == 4

(***************************************************************************)
(* Generic helpers.                                                        *)
(***************************************************************************)
Max(S) == CHOOSE x \in S : \A y \in S : y <= x

Min(S) == CHOOSE x \in S : \A y \in S : x <= y

Range(f) == {f[i] : i \in DOMAIN f}

\* every enumeration of the finite set S without repetition (an iteration
\* order of a Python set)
Orderings(S) ==
    {f \in [1..Cardinality(S) -> S] : \A i, j \in DOMAIN f : f[i] = f[j] => i = j}

(***************************************************************************)
(* domain/model.py                                                         *)
(***************************************************************************)
CategoryIdentifier(archive, subcategory) ==
    [archive |-> archive, subcategory |-> subcategory]

\* CategoryIdentifier.from_string accepts one or two '.'-separated parts
ValidCategoryString(category_string) ==
    ~(Len(category_string) < 1 \/ Len(category_string) > 2)

\* CategoryIdentifier.from_string (defined where ValidCategoryString holds)
from_string(category_string) ==
    CategoryIdentifier(category_string[1],
                       IF Len(category_string) = 2 THEN category_string[2] ELSE NULL)

\* Python truthiness of an Optional[str]
Truthy(s) == s # NULL /\ s # ""

\* CategoryIdentifier.__str__
Str(identifier) ==
    IF Truthy(identifier.subcategory)
    THEN <<identifier.archive, identifier.subcategory>>
    ELSE <<identifier.archive>>

\* conv is one conversion of a string to a CategoryIdentifier and back
NoConversion ==
    [pc |-> "none", category_string |-> <<>>, identifier |-> NULL, str |-> <<>>,
     again |-> NULL]

Category(identifier, archive_name, category_name, description, subcategories) ==
    [identifier |-> identifier, archive_name |-> archive_name,
     category_name |-> category_name, description |-> description,
     subcategories |-> subcategories]

Paper(arxiv_id, title, abstract, published_at, categories) ==
    [arxiv_id |-> arxiv_id, title |-> title, abstract |-> abstract,
     published_at |-> published_at, categories |-> categories]

\* Category.__eq__/__hash__: a set of categories holds one per identifier
Identifiers(categories) == {c.identifier : c \in categories}

\* set(list_of_categories): the first of equal elements is the one kept
RECURSIVE SetOfCategories(_)
SetOfCategories(list) ==
    IF list = <<>> THEN {}
    ELSE LET rest == SetOfCategories(SubSeq(list, 1, Len(list) - 1))
             c == list[Len(list)]
         IN IF c.identifier \in Identifiers(rest) THEN rest ELSE rest \cup {c}

\* a |= b on sets of categories: an element of b equal to one of a is not added
UnionUpdate(a, b) == a \cup {c \in b : c.identifier \notin Identifiers(a)}

(***************************************************************************)
(* infrastructure/persistence/orm.py                                       *)
(***************************************************************************)
\* CategoryORM.identifier as the SQL expression
SqlIdentifier(row) ==
    IF row.subcategory # NULL THEN <<row.archive, row.subcategory>> ELSE <<row.archive>>

\* INTEGER PRIMARY KEY without AUTOINCREMENT: the next rowid is max(rowid)+1
NextId(rows) == IF rows = {} THEN 1 ELSE Max({r.id : r \in rows}) + 1

\* uq_category_archive_subcategory: SQLite holds NULLs distinct in a unique index
CategoryConflict(row, archive, subcategory) ==
    row.archive = archive /\ subcategory # NULL /\ row.subcategory = subcategory

\* a join on the archive alone, which counts the archive-level rows among
\* the subcategories (the variant C27 must tell apart)
SubcategoryRowsOnArchive(s, row) ==
    {r \in s.category : r.archive = row.archive /\ row.subcategory = NULL}

\* CategoryORM.subcategories (viewonly self join on archive)
SubcategoryRows(s, row) ==
    {r \in s.category :
        r.archive = row.archive /\ r.subcategory # NULL /\ row.subcategory = NULL}

\* PaperORM.categories: the category rows joined through paper_category
PaperCategoryRows(s, paper_row) ==
    {r \in s.category :
        [paper_id |-> paper_row.id, category_id |-> r.id] \in s.paper_category}

\* ON DELETE CASCADE of paper_category, which SQLite applies only when the
\* connection has foreign_keys on
CascadeAssociations(s, fk) ==
    IF fk
    THEN [s EXCEPT !.paper_category =
            {a \in s.paper_category :
                /\ a.paper_id \in {p.id : p \in s.paper}
                /\ a.category_id \in {c.id : c \in s.category}}]
    ELSE s

EmptyStore == [category |-> {}, paper |-> {}, paper_category |-> {}]

(***************************************************************************)
(* infrastructure/persistence/repository.py: SqlAlchemyPaperRepository.    *)
(* An operation takes the session's view s of the tables and yields        *)
(* [s, err, ids]: the view it leaves, the exception it raised ("none" when *)
(* it returned) and the identifiers or arxiv ids the exception carries.    *)
(* Rows come back in rowid order where the code states no ORDER BY.        *)
(***************************************************************************)
Returned(s) == [s |-> s, err |-> "none", ids |-> {}]

Raised(s, err, ids) == [s |-> s, err |-> err, ids |-> ids]

\* the rows of a table in rowid order
RECURSIVE RowsById(_)
RowsById(rows) ==
    IF rows = {} THEN <<>>
    ELSE LET r == CHOOSE x \in rows : \A y \in rows : x.id <= y.id
         IN <<r>> \o RowsById(rows \ {r})

\* _chunk_set: the chunks of an iteration order, chunk_size items each
ChunkOf(order, i, chunk_size) ==
    SubSeq(order, i, IF i + chunk_size - 1 < Len(order) THEN i + chunk_size - 1 ELSE Len(order))

\* _to_category of a row without its subcategories relationship
LeafCategory(row) ==
    Category(CategoryIdentifier(row.archive, row.subcategory),
             row.archive_name, row.category_name, row.description, {})

\* _to_category
to_category(s, row) ==
    Category(CategoryIdentifier(row.archive, row.subcategory),
             row.archive_name, row.category_name, row.description,
             {LeafCategory(sub) : sub \in SubcategoryRows(s, row)})

\* _to_paper: the categories are a set built from the joined rows
to_paper(s, row) ==
    LET joined == RowsById(PaperCategoryRows(s, row))
    IN Paper(row.arxiv_id, row.title, row.abstract, row.published_at,
             SetOfCategories([i \in DOMAIN joined |-> to_category(s, joined[i])]))

\* one VALUES row of INSERT ... ON CONFLICT (archive, subcategory) DO UPDATE
UpsertCategoryRow(rows, c) ==
    IF \E r \in rows : CategoryConflict(r, c.identifier.archive, c.identifier.subcategory)
    THEN {IF CategoryConflict(r, c.identifier.archive, c.identifier.subcategory)
          THEN [r EXCEPT !.archive_name = c.archive_name,
                         !.category_name = c.category_name,
                         !.description = c.description]
          ELSE r : r \in rows}
    ELSE rows \cup {[id |-> NextId(rows),
                     archive |-> c.identifier.archive,
                     subcategory |-> c.identifier.subcategory,
                     archive_name |-> c.archive_name,
                     category_name |-> c.category_name,
                     description |-> c.description]}

\* upsert_categories: every chunk is one multi-row upsert, its rows applied in
\* the iteration order of the set
RECURSIVE UpsertCategoryRows(_, _)
UpsertCategoryRows(rows, order) ==
    IF order = <<>> THEN rows
    ELSE UpsertCategoryRows(UpsertCategoryRow(rows, Head(order)), Tail(order))

upsert_categories(s, order) ==
    Returned([s EXCEPT !.category = UpsertCategoryRows(s.category, order)])

\* get_category: Optional[Category] as a set of at most one category
get_category(s, category_identifier) ==
    LET found == {r \in s.category : SqlIdentifier(r) = Str(category_identifier)}
    IN IF found = {} THEN {}
       ELSE {to_category(s, CHOOSE r \in found : \A q \in found : r.id <= q.id)}

\* list_categories: every category row, ORDER BY id
list_categories(s) ==
    LET rows == RowsById(s.category)
    IN [i \in DOMAIN rows |-> to_category(s, rows[i])]

\* an insert of a paper row that ignores the row already stored (the variant
\* C15 must tell apart)
InsertPaperRow(rows, p) ==
    rows \cup {[id |-> IF rows = {} THEN 1 ELSE Max({r.id : r \in rows}) + 1,
                arxiv_id |-> p.arxiv_id, title |-> p.title,
                abstract |-> p.abstract, published_at |-> p.published_at]}

\* one VALUES row of INSERT ... ON CONFLICT (arxiv_id) DO UPDATE
UpsertPaperRow(rows, p) ==
    IF \E r \in rows : r.arxiv_id = p.arxiv_id
    THEN {IF r.arxiv_id = p.arxiv_id
          THEN [r EXCEPT !.title = p.title, !.abstract = p.abstract,
                         !.published_at = p.published_at]
          ELSE r : r \in rows}
    ELSE rows \cup {[id |-> NextId(rows), arxiv_id |-> p.arxiv_id, title |-> p.title,
                     abstract |-> p.abstract, published_at |-> p.published_at]}

RECURSIVE UpsertPaperRows(_, _)
UpsertPaperRows(rows, chunk) ==
    IF chunk = <<>> THEN rows
    ELSE UpsertPaperRows(UpsertPaperRow(rows, Head(chunk)), Tail(chunk))

\* category_id_map: dict(rows of (identifier, id)); a later row overwrites an
\* earlier one with the same identifier
CategoryIdMap(s, keys) ==
    LET hit == {r \in s.category : SqlIdentifier(r) \in keys}
    IN [k \in {SqlIdentifier(r) : r \in hit} |->
            Max({r.id : r \in {q \in hit : SqlIdentifier(q) = k}})]

\* upsert_papers, from the chunk that starts at position i of the iteration order
RECURSIVE UpsertPapersFrom(_, _, _)
UpsertPapersFrom(s, order, i) ==
    IF i > Len(order) THEN Returned(s)
    ELSE
      LET chunk == ChunkOf(order, i, DATABASE_CHUNK_SIZE)
          papers == Range(chunk)
          s1 == [s EXCEPT !.paper = UpsertPaperRows(s.paper, chunk)]
          paper_id_map == [a \in {p.arxiv_id : p \in papers} |->
                              (CHOOSE r \in s1.paper : r.arxiv_id = a).id]
          keys == {Str(c.identifier) : c \in UNION {p.categories : p \in papers}}
          category_id_map == CategoryIdMap(s1, keys)
          category_refs == {[paper_id |-> paper_id_map[p.arxiv_id],
                             category_id |-> category_id_map[Str(c.identifier)]] :
                               <<p, c>> \in {pc \in papers \X UNION {q.categories : q \in papers} :
                                                pc[2] \in pc[1].categories}}
          s2 == IF category_refs # {}
                THEN [s1 EXCEPT !.paper_category =
                        {a \in s1.paper_category : a.paper_id \notin Range(paper_id_map)}
                        \cup category_refs]
                ELSE s1
      IN IF \E k \in keys : k \notin DOMAIN category_id_map
         THEN Raised(s1, "KeyError", {})
         ELSE UpsertPapersFrom(s2, order, i + DATABASE_CHUNK_SIZE)

upsert_papers(s, order) == UpsertPapersFrom(s, order, 1)

\* get_paper: Optional[Paper] as a set of at most one paper
get_paper(s, arxiv_id) ==
    {to_paper(s, r) : r \in {q \in s.paper : q.arxiv_id = arxiv_id}}

\* list_papers(limit=None)
list_papers(s) ==
    LET rows == RowsById(s.paper)
    IN [i \in DOMAIN rows |-> to_paper(s, rows[i])]

\* a delete that removes the papers it finds before it reports the missing
\* ones (the variant C19 must tell apart)
DeleteFoundPapersFirst(s, arxiv_ids, fk) ==
    LET found == {r \in s.paper : r.arxiv_id \in arxiv_ids}
        missing == arxiv_ids \ {r.arxiv_id : r \in found}
        left == [s EXCEPT !.paper = s.paper \ found,
                          !.paper_category =
                              {a \in s.paper_category : a.paper_id \notin {r.id : r \in found}}]
    IN IF missing # {}
       THEN [s |-> left, err |-> "PapersNotFoundError", ids |-> missing]
       ELSE [s |-> left, err |-> "none", ids |-> {}]

\* delete_papers: session.delete of each PaperORM also deletes the
\* paper_category rows of its loaded categories collection
delete_papers(s, arxiv_ids, fk) ==
    LET paper_orms == {r \in s.paper : r.arxiv_id \in arxiv_ids}
        missing_papers == arxiv_ids \ {r.arxiv_id : r \in paper_orms}
        loaded == {[paper_id |-> r.id, category_id |-> c.id] :
                      <<r, c>> \in {rc \in paper_orms \X s.category :
                                       rc[2] \in PaperCategoryRows(s, rc[1])}}
    IN IF missing_papers # {}
       THEN Raised(s, "PapersNotFoundError", missing_papers)
       ELSE Returned(CascadeAssociations(
                [s EXCEPT !.paper = s.paper \ paper_orms,
                          !.paper_category = s.paper_category \ loaded], fk))

\* _delete_categories_chunk
delete_categories_chunk(s, category_identifiers, fk) ==
    LET wanted == {Str(c) : c \in category_identifiers}
        existing == {SqlIdentifier(r) : r \in {q \in s.category : SqlIdentifier(q) \in wanted}}
        missing_categories ==
            category_identifiers \ {from_string(e) : e \in existing}
    IN IF missing_categories # {}
       THEN Raised(s, "CategoriesNotFoundError", missing_categories)
       ELSE Returned(CascadeAssociations(
                [s EXCEPT !.category = {r \in s.category : SqlIdentifier(r) \notin wanted}],
                fk))

\* delete_categories, from the chunk that starts at position i of the iteration order
RECURSIVE DeleteCategoriesFrom(_, _, _, _)
DeleteCategoriesFrom(s, order, i, fk) ==
    IF i > Len(order) THEN Returned(s)
    ELSE LET r == delete_categories_chunk(s, Range(ChunkOf(order, i, DATABASE_CHUNK_SIZE)), fk)
         IN IF r.err # "none" THEN r
            ELSE DeleteCategoriesFrom(r.s, order, i + DATABASE_CHUNK_SIZE, fk)

delete_categories(s, order, fk) == DeleteCategoriesFrom(s, order, 1, fk)

(***************************************************************************)
(* infrastructure/persistence/unit_of_work.py and its abstract base.  The  *)
(* engine holds the committed tables db; a session sees them plus its own  *)
(* uncommitted writes.  u is [db, session].                                *)
(***************************************************************************)
\* SqlAlchemyUnitOfWork.__enter__: a new session on the engine
UowEnter(u) == [u EXCEPT !.session = u.db]

\* SqlAlchemyUnitOfWork.commit
UowCommit(u) == [u EXCEPT !.db = u.session]

\* a rollback that discards nothing (the variant C5 must tell apart)
RollbackKeepingWrites(u) == u

\* SqlAlchemyUnitOfWork.rollback
UowRollback(u) == [u EXCEPT !.session = u.db]

\* an exit that commits what the scope left pending (the variant C1 must tell
\* apart)
ExitCommitting(u) == [u EXCEPT !.db = u.session]

\* __exit__: AbstractUnitOfWork.__exit__ rolls back, then the session is closed
UowExit(u) == UowRollback(u)

(***************************************************************************)
(* application/services.py                                                 *)
(***************************************************************************)
\* a table in which two legacy names share one canonical name (the variant C11
\* must tell apart)
LegacyItemsSharingCanonical ==
    << <<<<"chem-ph">>, <<"physics", "chem-ph">>>>,
       <<<<"alg-geom">>, <<"physics", "chem-ph">>>>,
       <<<<"cmp-lg">>, <<"cs", "CL">>>>,
       <<<<"acc-phys">>, <<"physics", "acc-ph">>>>,
       <<<<"adap-org">>, <<"nlin", "AO">>>>,
       <<<<"chao-dyn">>, <<"nlin", "CD">>>>,
       <<<<"ao-sci">>, <<"physics", "ao-ph">>>>,
       <<<<"plasm-ph">>, <<"physics", "plasm-ph">>>>,
       <<<<"supr-con">>, <<"cond-mat", "supr-con">>>>,
       <<<<"funct-an">>, <<"math", "FA">>>>,
       <<<<"dg-ga">>, <<"math", "DG">>>>,
       <<<<"patt-sol">>, <<"nlin", "PS">>>>,
       <<<<"q-alg">>, <<"math", "QA">>>>,
       <<<<"bayes-an">>, <<"physics", "data-an">>>>,
       <<<<"mtrl-th">>, <<"cond-mat", "mtrl-sci">>>>,
       <<<<"comp-gas">>, <<"nlin", "CG">>>>,
       <<<<"solv-int">>, <<"nlin", "SI">>>>,
       <<<<"atom-ph">>, <<"physics", "atom-ph">>>> >>

\* LEGACY_TO_CANONICAL_CATEGORIES as the dict literal lists its items
LEGACY_ITEMS ==
    << <<<<"chem-ph">>, <<"physics", "chem-ph">>>>,
       <<<<"alg-geom">>, <<"math", "AG">>>>,
       <<<<"cmp-lg">>, <<"cs", "CL">>>>,
       <<<<"acc-phys">>, <<"physics", "acc-ph">>>>,
       <<<<"adap-org">>, <<"nlin", "AO">>>>,
       <<<<"chao-dyn">>, <<"nlin", "CD">>>>,
       <<<<"ao-sci">>, <<"physics", "ao-ph">>>>,
       <<<<"plasm-ph">>, <<"physics", "plasm-ph">>>>,
       <<<<"supr-con">>, <<"cond-mat", "supr-con">>>>,
       <<<<"funct-an">>, <<"math", "FA">>>>,
       <<<<"dg-ga">>, <<"math", "DG">>>>,
       <<<<"patt-sol">>, <<"nlin", "PS">>>>,
       <<<<"q-alg">>, <<"math", "QA">>>>,
       <<<<"bayes-an">>, <<"physics", "data-an">>>>,
       <<<<"mtrl-th">>, <<"cond-mat", "mtrl-sci">>>>,
       <<<<"comp-gas">>, <<"nlin", "CG">>>>,
       <<<<"solv-int">>, <<"nlin", "SI">>>>,
       <<<<"atom-ph">>, <<"physics", "atom-ph">>>> >>

\* a dict built from a list of (key, value) items: a later item overwrites an
\* earlier one with the same key
DictOf(items) ==
    [k \in {items[i][1] : i \in DOMAIN items} |->
        items[Max({i \in DOMAIN items : items[i][1] = k})][2]]

LEGACY_TO_CANONICAL_CATEGORIES == DictOf(LEGACY_ITEMS)

\* {v: k for k, v in LEGACY_TO_CANONICAL_CATEGORIES.items()}
CANONICAL_TO_LEGACY_CATEGORIES ==
    DictOf([i \in DOMAIN LEGACY_ITEMS |-> <<LEGACY_ITEMS[i][2], LEGACY_ITEMS[i][1]>>])

\* LEGACY_TO_CANONICAL_CATEGORIES.get(category_str, category_str)
Canonical(category_str) ==
    IF category_str \in DOMAIN LEGACY_TO_CANONICAL_CATEGORIES
    THEN LEGACY_TO_CANONICAL_CATEGORIES[category_str]
    ELSE category_str

\* legacy categories built without the canonical category's description (the
\* variant C9 must tell apart)
LegacyCategoriesWithoutDescription(categories) ==
    {[identifier |-> [archive |-> "chem-ph", subcategory |-> NULL],
      archive_name |-> category.archive_name, category_name |-> category.category_name,
      description |-> NULL, subcategories |-> {}] :
        category \in {c \in categories : c.identifier = [archive |-> "physics",
                                                         subcategory |-> "chem-ph"]}}

\* _get_legacy_categories
get_legacy_categories(categories) ==
    {Category(from_string(CANONICAL_TO_LEGACY_CATEGORIES[Str(category.identifier)]),
              category.archive_name, category.category_name, category.description, {}) :
        category \in {c \in categories :
                         Str(c.identifier) \in DOMAIN CANONICAL_TO_LEGACY_CATEGORIES}}

\* _resolve_categories with category_strings given, from position i of the
\* iteration order of the set; [err, ids, categories]
RECURSIVE ResolveFrom(_, _, _, _)
ResolveFrom(s, order, i, categories) ==
    IF i > Len(order) THEN [err |-> "none", ids |-> {}, categories |-> categories]
    ELSE IF ~ValidCategoryString(order[i])
    THEN [err |-> "InvalidCategoryError", ids |-> {}, categories |-> {}]
    ELSE LET category_identifier == from_string(order[i])
             category == get_category(s, category_identifier)
         IN IF category = {}
            THEN [err |-> "CategoriesNotFoundError", ids |-> {category_identifier},
                  categories |-> {}]
            ELSE ResolveFrom(s, order, i + 1, UnionUpdate(categories, category))

\* a resolution that hands back an empty set from an empty repository (the
\* variant C8 must tell apart)
ResolveAllowingNone(s, all_categories, order) ==
    IF ~all_categories THEN ResolveFrom(s, order, 1, {})
    ELSE [err |-> "none", ids |-> {}, categories |-> SetOfCategories(list_categories(s))]

\* _resolve_categories; order is the iteration order of category_strings and
\* is not read when category_strings is None (all_categories)
resolve_categories(s, all_categories, order) ==
    IF ~all_categories THEN ResolveFrom(s, order, 1, {})
    ELSE LET categories == list_categories(s)
         IN IF categories = <<>>
            THEN [err |-> "NoCategoriesError", ids |-> {}, categories |-> {}]
            ELSE [err |-> "none", ids |-> {}, categories |-> SetOfCategories(categories)]

\* {str(category.identifier): category for category in uow.papers.list_categories()}
EnrichedCategoryMapping(s) ==
    LET listed == list_categories(s)
    IN DictOf([i \in DOMAIN listed |-> <<Str(listed[i].identifier), listed[i]>>])

\* an enrichment that leaves out the category strings it cannot look up (the
\* variant C3 must tell apart)
EnrichSkippingUnknown(mapping, paper_dtos) ==
    [err |-> "none",
     papers |->
       {[arxiv_id |-> paper_dto.arxiv_id, title |-> paper_dto.title,
         abstract |-> paper_dto.abstract, published_at |-> paper_dto.published_at,
         categories |->
           {mapping[Canonical(category_str)] :
               category_str \in {x \in paper_dto.categories :
                                    Canonical(x) \in DOMAIN mapping}}] :
           paper_dto \in paper_dtos}]

\* papers = {model.Paper(...) for paper_dto in paper_dtos}: [err, papers].
\* A category string whose canonical form is no key of the mapping raises
\* KeyError; the categories of a paper are a set comprehension.
Enrich(mapping, paper_dtos) ==
    IF \E paper_dto \in paper_dtos : \E category_str \in paper_dto.categories :
          Canonical(category_str) \notin DOMAIN mapping
    THEN [err |-> "KeyError", papers |-> {}]
    ELSE [err |-> "none",
          papers |->
            {Paper(paper_dto.arxiv_id, paper_dto.title, paper_dto.abstract,
                   paper_dto.published_at,
                   {mapping[Canonical(category_str)] :
                       category_str \in paper_dto.categories}) :
                paper_dto \in paper_dtos}]

\* the iteration order of a set of papers that lists them as perm lists their
\* arxiv ids
OrderBy(papers, perm) ==
    LET present == SelectSeq(perm, LAMBDA a : \E p \in papers : p.arxiv_id = a)
    IN [i \in DOMAIN present |-> CHOOSE p \in papers : p.arxiv_id = present[i]]

\* self.session.flush() closing the upsert of a chunk: the engine may refuse
\* the write (fault), which raises with the statements before it still in the
\* session.  An upsert of nothing runs no statement (ran is false).
Flushed(r, ran, fault) ==
    IF r.err = "none" /\ ran /\ fault THEN Raised(r.s, "OperationalError", {}) ELSE r

\* the outcome of a service call: the engine and session it leaves, what it
\* raised, the categories it resolved, whether it called the source and with
\* which categories, and what it returned
Outcome(u, err, ids, resolved, fetched, categories, papers) ==
    [u |-> u, err |-> err, ids |-> ids, resolved |-> resolved, fetched |-> fetched,
     categories |-> categories, papers |-> papers]

\* the body of `with uow:` in fetch_and_store_latest_papers and
\* fetch_and_store_historical_papers, u being the unit of work just entered.
\* adapter is what fetch_latest / fetch_historical does when called:
\* [raises, paper_dtos]
IngestBody(u, all_categories, order, adapter, perm, fault) ==
    LET resolved == resolve_categories(u.session, all_categories, order)
        categories == UnionUpdate(resolved.categories,
                                  get_legacy_categories(resolved.categories))
        enriched == Enrich(EnrichedCategoryMapping(u.session), adapter.paper_dtos)
        upserted == Flushed(upsert_papers(u.session, OrderBy(enriched.papers, perm)),
                            enriched.papers # {}, fault)
    IN IF resolved.err # "none"
       THEN Outcome(u, resolved.err, resolved.ids, {}, FALSE, {}, {})
       ELSE IF adapter.raises # "none"
       THEN Outcome(u, adapter.raises, {}, resolved.categories, TRUE, categories, {})
       ELSE IF enriched.err # "none"
       THEN Outcome(u, enriched.err, {}, resolved.categories, TRUE, categories, {})
       ELSE IF upserted.err # "none"
       THEN Outcome([u EXCEPT !.session = upserted.s], upserted.err, upserted.ids,
                    resolved.categories, TRUE, categories, {})
       ELSE Outcome(UowCommit([u EXCEPT !.session = upserted.s]), "none", {},
                    resolved.categories, TRUE, categories, enriched.papers)

\* `with uow:` around a body that ran in the entered unit of work:
\* __exit__ runs on every path out of it
WithUow(body) == [body EXCEPT !.u = UowExit(body.u)]

fetch_and_store_latest_papers(u, all_categories, order, adapter, perm, fault) ==
    WithUow(IngestBody(UowEnter(u), all_categories, order, adapter, perm, fault))

fetch_and_store_historical_papers(u, all_categories, order, adapter, perm, fault) ==
    WithUow(IngestBody(UowEnter(u), all_categories, order, adapter, perm, fault))

\* the Category built from a CategoryDTO
CategoryOfDto(dto) ==
    Category(CategoryIdentifier(dto.archive, dto.subcategory),
             dto.archive_name, dto.category_name, dto.description, {})

\* a list without the elements equal to an earlier one
RECURSIVE FirstOccurrences(_)
FirstOccurrences(list) ==
    IF list = <<>> THEN <<>>
    ELSE LET rest == FirstOccurrences(SubSeq(list, 1, Len(list) - 1))
             c == list[Len(list)]
         IN IF c.identifier \in {rest[i].identifier : i \in DOMAIN rest}
            THEN rest ELSE Append(rest, c)

\* fetch_and_store_categories; extractor is what fetch_categories does when
\* called: [raises, category_dtos], order the iteration order of the DTO set.
\* The set of categories is iterated in the order its elements were added.
\* The outcome's categories are the returned set.
fetch_and_store_categories(u, extractor, order, fault) ==
    LET built == FirstOccurrences([i \in DOMAIN order |-> CategoryOfDto(order[i])])
        entered == UowEnter(u)
        upserted == Flushed(upsert_categories(entered.session, built), built # <<>>, fault)
    IN IF extractor.raises # "none"
       THEN Outcome(u, extractor.raises, {}, {}, TRUE, {}, {})
       ELSE WithUow(
              IF upserted.err # "none"
              THEN Outcome([entered EXCEPT !.session = upserted.s], upserted.err, {},
                           {}, TRUE, {}, {})
              ELSE Outcome(UowCommit([entered EXCEPT !.session = upserted.s]), "none", {},
                           {}, TRUE, Range(built), {}))

(***************************************************************************)
(* infrastructure/paper_extractor.py: RSSPaperExtractor.  rss is the run of *)
(* fetch_latest: its work queue, the DTOs accumulated so far, the progress *)
(* bar (total, n) and the set object the caller passed (caller; given is   *)
(* what it held at the call).  For the record: every entry any fetch       *)
(* returned (entries), whether a fetch returned a paper an earlier one had *)
(* returned (overlap), the size of the latest result (result_len) and the  *)
(* numbers of fetches and of splits so far.                                *)
(***************************************************************************)
NoRun ==
    [pc |-> "none", categories_queue |-> <<>>, paper_dtos |-> {}, entries |-> {},
     overlap |-> FALSE, total |-> 0, n |-> 0, caller |-> {}, given |-> {},
     result_len |-> 0, fetches |-> 0, splits |-> 0]

\* PaperDTO.__eq__/__hash__: the arxiv ids of a set of DTOs
ArxivIdsOf(paper_dtos) == {d.arxiv_id : d \in paper_dtos}

\* a set update that keeps both of two DTOs with one arxiv_id (the variant
\* C14 must tell apart)
UpdateKeepingBoth(paper_dtos, result) == paper_dtos \cup result

\* paper_dtos.update(result): a DTO equal to one already held is not added
UpdateDtos(paper_dtos, result) ==
    paper_dtos \cup {d \in result : d.arxiv_id \notin ArxivIdsOf(paper_dtos)}

\* a split decision that does not look at the subcategory of a single
\* category (the variant C24 must tell apart)
ShouldSplitAnySingle(result, categories) ==
    /\ Cardinality(result) = RSS_FEED_LIMIT
    /\ Cardinality(categories) >= 1

\* _should_split_categories
should_split_categories(result, categories) ==
    /\ Cardinality(result) = RSS_FEED_LIMIT
    /\ \/ Cardinality(categories) >= 2
       \/ /\ Cardinality(categories) = 1
          /\ (CHOOSE c \in categories : TRUE).identifier.subcategory = NULL

\* a split that does not expand a single category (the variant C13 must tell
\* apart)
SplitTargetUnexpanded(categories) == categories

\* _split_categories: the set that is halved, a single category being
\* replaced by its subcategories
SplitTarget(categories) ==
    IF Cardinality(categories) <= 1
    THEN (CHOOSE c \in categories : TRUE).subcategories
    ELSE categories

\* _split_categories: categories.pop() takes the single category out of the
\* set object it was handed; a set of two or more is left as it is
AfterSplit(categories) ==
    IF Cardinality(categories) <= 1
    THEN categories \ {CHOOSE c \in categories : TRUE}
    ELSE categories

\* halves that leave out the element at mid (the variant C25 must tell
\* apart)
SplitDroppingMiddle(order) ==
    LET mid == Len(order) \div 2
    IN <<Range(SubSeq(order, 1, mid)), Range(SubSeq(order, mid + 2, Len(order)))>>

\* _split_categories: the two halves of list(categories), order being the
\* iteration order of the set that is halved
split_categories(order) ==
    LET mid == Len(order) \div 2
    IN <<Range(SubSeq(order, 1, mid)), Range(SubSeq(order, mid + 1, Len(order)))>>

\* a progress total that grows by one for each split (the variant C26 must
\* tell apart)
PbarTotalPerSplit(total, new_categories) == total + 1

\* pbar.total += len(new_categories)
PbarTotal(total, new_categories) == total + Len(new_categories)

(***************************************************************************)
(* infrastructure/paper_extractor.py: JSONPaperExtractor.  json is the run *)
(* of fetch_historical: categories is the set object the caller passed     *)
(* (given records what it held at the call), file the lines of the file,   *)
(* line the number of lines read, entries the DTOs kept so far.  A date is *)
(* the day of one month, NoDate is None; a line is the record json.loads   *)
(* returns, an absent key being NULL, and its categories string is the     *)
(* sequence of its whitespace-separated tokens.                            *)
(***************************************************************************)
NoDate == 0

NoScan ==
    [pc |-> "none", categories |-> {}, given |-> {}, from_date |-> NoDate,
     to_date |-> NoDate, file |-> <<>>, line |-> 0, entries |-> {},
     err |-> "none", raw |-> NULL]

RawEntry(id, title, abstract, update_date, categories) ==
    [id |-> id, title |-> title, abstract |-> abstract, update_date |-> update_date,
     categories |-> categories]

\* JSONPaperEntry(**entry): pydantic accepts the record when every required
\* field is there
JsonEntryValid(entry) ==
    /\ entry.id # NULL
    /\ entry.title # NULL
    /\ entry.abstract # NULL
    /\ entry.update_date # NoDate
    /\ entry.categories # NULL

\* JSONPaperEntry.to_paper_dto: categories = set(self.categories.split())
JsonToPaperDto(entry) ==
    [arxiv_id |-> entry.id, title |-> entry.title, abstract |-> entry.abstract,
     published_at |-> entry.update_date, categories |-> Range(entry.categories)]

\* categories |= {subcategory for category in categories for subcategory in
\* category.subcategories}
ExpandSubcategories(categories) ==
    UnionUpdate(categories, UNION {c.subcategories : c \in categories})

\* any(str(category.identifier) in entry.categories for category in categories)
JsonCategoryMatch(entry, categories) ==
    \E category \in categories : Str(category.identifier) \in entry.categories

\* a date filter whose upper bound is exclusive (the variant C21 must tell
\* apart)
JsonDateMatchExclusive(entry, from_date, to_date) ==
    /\ ~(from_date # NoDate /\ entry.published_at < from_date)
    /\ ~(to_date # NoDate /\ entry.published_at >= to_date)

\* the two date tests of the loop: neither `continue` is taken
JsonDateMatch(entry, from_date, to_date) ==
    /\ ~(from_date # NoDate /\ entry.published_at < from_date)
    /\ ~(to_date # NoDate /\ entry.published_at > to_date)

(***************************************************************************)
(* infrastructure/paper_extractor.py: ArXivCategoryExtractor.  page is the *)
(* run of _extract_categories over the h2, h3, h4 and p elements of the    *)
(* page: i elements consumed, the DTOs added so far and the five locals.   *)
(* The text of a header is modelled by what the patterns look at: the      *)
(* '.'-separated segments before the parenthesis (code) and what stands in *)
(* the parentheses (name), NULL when there is no parenthesis.              *)
(***************************************************************************)
NoParse ==
    [pc |-> "none", elements |-> <<>>, i |-> 0, categories |-> {},
     group_name |-> NULL, archive_name |-> NULL, archive |-> NULL,
     subcategory |-> NULL, category_name |-> NULL, result |-> {}]

Element(name, text, code, inside) ==
    [name |-> name, text |-> text, code |-> code, inside |-> inside]

\* CATEGORY_PATTERN.match: letters, optionally '.' and letters, then a
\* non-empty parenthesis
CategoryPatternMatches(element) ==
    /\ Len(element.code) \in {1, 2}
    /\ \A k \in DOMAIN element.code : element.code[k] # ""
    /\ Truthy(element.inside)

\* _extract_category_data (defined where the pattern matches)
extract_category_data(element) ==
    [archive |-> element.code[1],
     subcategory |-> IF Len(element.code) = 2 THEN element.code[2] ELSE NULL,
     category_name |-> element.inside]

\* _extract_archive_name: the text before the first parenthesis, None when
\* the text is empty or has no parenthesis
extract_archive_name(element) ==
    IF element.inside = NULL THEN NULL ELSE element.text

\* _parse_group_header
parse_group_header(locals, element) ==
    [locals EXCEPT !.group_name = element.text, !.archive_name = NULL,
                   !.archive = NULL, !.subcategory = NULL, !.category_name = NULL]

\* an archive header that leaves the current archive in place (the variant
\* C28 must tell apart)
ParseArchiveHeaderKeepingArchive(locals, element) ==
    [locals EXCEPT !.archive_name = extract_archive_name(element)]

\* _parse_archive_header
parse_archive_header(locals, element) ==
    [locals EXCEPT !.archive_name = extract_archive_name(element),
                   !.archive = NULL, !.subcategory = NULL, !.category_name = NULL]

\* _parse_category_header (defined where the pattern matches)
parse_category_header(locals, element) ==
    LET category_data == extract_category_data(element)
    IN [locals EXCEPT !.archive = category_data.archive,
                      !.subcategory = category_data.subcategory,
                      !.category_name = category_data.category_name]

\* _create_category_dto with archive_name or group_name
create_category_dto(locals, element) ==
    [archive |-> locals.archive, subcategory |-> locals.subcategory,
     archive_name |-> IF Truthy(locals.archive_name) THEN locals.archive_name
                      ELSE locals.group_name,
     category_name |-> locals.category_name, description |-> element.text]

\* the archive-level DTOs made for the categories that have a subcategory
archive_categories(categories) ==
    {[archive |-> category.archive, subcategory |-> NULL,
      archive_name |-> category.archive_name, category_name |-> NULL,
      description |-> NULL] : category \in {c \in categories : c.subcategory # NULL}}

(***************************************************************************)
(* The record of the most recent call: what was called, with which         *)
(* arguments, what it raised and what it returned; dirty tells whether a   *)
(* rollback or an exit found uncommitted writes in the session.            *)
(***************************************************************************)
NoCall ==
    [op |-> "none", err |-> "none", ids |-> {}, identifiers |-> {}, arxiv_ids |-> {},
     categories |-> {}, papers |-> {}, all_categories |-> FALSE, category_strings |-> {},
     resolved |-> {}, fetched |-> FALSE, paper_dtos |-> {}, dirty |-> FALSE]

\* no call is in progress: the caller has taken the result of the last one
Idle == last = NoCall

\* the caller takes the result of the call that just ended
Return ==
    /\ ~Idle
    /\ last' = NoCall
    /\ UNCHANGED <<db, session, scope, calls, foreign_keys, rss, json, conv, page>>

(***************************************************************************)
(* A caller that drives the unit of work and its repository directly.      *)
(***************************************************************************)
Enter ==
    /\ Idle
    /\ scope = "closed"
    /\ scope' = "open"
    /\ session' = UowEnter([db |-> db, session |-> session]).session
    /\ calls' = 0
    /\ last' = [NoCall EXCEPT !.op = "enter"]
    /\ UNCHANGED <<db, foreign_keys, rss, json, conv, page>>

Commit ==
    /\ Idle
    /\ scope = "open"
    /\ db' = UowCommit([db |-> db, session |-> session]).db
    /\ last' = [NoCall EXCEPT !.op = "commit"]
    /\ UNCHANGED <<session, scope, calls, foreign_keys, rss, json, conv, page>>

Rollback ==
    /\ Idle
    /\ scope = "open"
    /\ session' = UowRollback([db |-> db, session |-> session]).session
    /\ last' = [NoCall EXCEPT !.op = "rollback", !.dirty = (session # db)]
    /\ UNCHANGED <<db, scope, calls, foreign_keys, rss, json, conv, page>>

Exit ==
    /\ Idle
    /\ scope = "open"
    /\ scope' = "closed"
    /\ session' = UowExit([db |-> db, session |-> session]).session
    /\ last' = [NoCall EXCEPT !.op = "exit", !.dirty = (session # db)]
    /\ UNCHANGED <<db, calls, foreign_keys, rss, json, conv, page>>

UpsertCategories(categories) ==
    /\ Idle
    /\ scope = "open"
    /\ \E order \in Orderings(categories) :
         LET r == upsert_categories(session, order)
         IN /\ session' = r.s
            /\ last' = [NoCall EXCEPT !.op = "upsert_categories", !.err = r.err,
                                      !.ids = r.ids, !.categories = categories]
    /\ UNCHANGED <<db, scope, foreign_keys, rss, json, conv, page>>

UpsertPapers(papers) ==
    /\ Idle
    /\ scope = "open"
    /\ \E order \in Orderings(papers) :
         LET r == upsert_papers(session, order)
         IN /\ session' = r.s
            /\ last' = [NoCall EXCEPT !.op = "upsert_papers", !.err = r.err,
                                      !.ids = r.ids, !.papers = papers]
    /\ UNCHANGED <<db, scope, foreign_keys, rss, json, conv, page>>

\* upsert_papers handed a list, which may name a paper twice
UpsertPaperList(list) ==
    /\ Idle
    /\ scope = "open"
    /\ LET r == upsert_papers(session, list)
       IN /\ session' = r.s
          /\ last' = [NoCall EXCEPT !.op = "upsert_papers", !.err = r.err,
                                    !.ids = r.ids, !.papers = Range(list)]
    /\ UNCHANGED <<db, scope, foreign_keys, rss, json, conv, page>>

DeletePapers(arxiv_ids) ==
    /\ Idle
    /\ scope = "open"
    /\ LET r == delete_papers(session, arxiv_ids, foreign_keys)
       IN /\ session' = r.s
          /\ last' = [NoCall EXCEPT !.op = "delete_papers", !.err = r.err,
                                    !.ids = r.ids, !.arxiv_ids = arxiv_ids]
    /\ UNCHANGED <<db, scope, foreign_keys, rss, json, conv, page>>

DeleteCategories(category_identifiers) ==
    /\ Idle
    /\ scope = "open"
    /\ \E order \in Orderings(category_identifiers) :
         LET r == delete_categories(session, order, foreign_keys)
         IN /\ session' = r.s
            /\ last' = [NoCall EXCEPT !.op = "delete_categories", !.err = r.err,
                                      !.ids = r.ids, !.identifiers = category_identifiers]
    /\ UNCHANGED <<db, scope, foreign_keys, rss, json, conv, page>>

(***************************************************************************)
(* The services, each called with the unit of work outside any scope.      *)
(***************************************************************************)
ServiceCall(op, r, all_categories, category_strings, paper_dtos) ==
    /\ db' = r.u.db
    /\ session' = r.u.session
    /\ last' = [NoCall EXCEPT !.op = op, !.err = r.err, !.ids = r.ids,
                              !.resolved = r.resolved, !.fetched = r.fetched,
                              !.categories = r.categories,
                              !.papers = r.papers, !.all_categories = all_categories,
                              !.category_strings = category_strings,
                              !.paper_dtos = paper_dtos]
    /\ UNCHANGED <<scope, calls, foreign_keys, rss, json, conv, page>>

FetchAndStoreCategories(extractor) ==
    /\ Idle
    /\ scope = "closed"
    /\ \E order \in Orderings(extractor.category_dtos) : \E fault \in BOOLEAN :
         ServiceCall("fetch_and_store_categories",
                     fetch_and_store_categories([db |-> db, session |-> session],
                                                extractor, order, fault),
                     FALSE, {}, {})

\* category_strings = None is all_categories with no strings
FetchAndStoreLatestPapers(all_categories, category_strings, adapter) ==
    /\ Idle
    /\ scope = "closed"
    /\ \E order \in Orderings(category_strings) :
       \E perm \in Orderings({dto.arxiv_id : dto \in adapter.paper_dtos}) :
       \E fault \in BOOLEAN :
         ServiceCall("fetch_and_store_latest_papers",
                     fetch_and_store_latest_papers([db |-> db, session |-> session],
                         all_categories, order, adapter, perm, fault),
                     all_categories, category_strings, adapter.paper_dtos)

FetchAndStoreHistoricalPapers(all_categories, category_strings, adapter) ==
    /\ Idle
    /\ scope = "closed"
    /\ \E order \in Orderings(category_strings) :
       \E perm \in Orderings({dto.arxiv_id : dto \in adapter.paper_dtos}) :
       \E fault \in BOOLEAN :
         ServiceCall("fetch_and_store_historical_papers",
                     fetch_and_store_historical_papers([db |-> db, session |-> session],
                         all_categories, order, adapter, perm, fault),
                     all_categories, category_strings, adapter.paper_dtos)

(***************************************************************************)
(* Inputs.                                                                 *)
(***************************************************************************)
Physics == CategoryIdentifier("physics", NULL)

ChemPh == CategoryIdentifier("physics", "chem-ph")

LegacyChemPh == CategoryIdentifier("chem-ph", NULL)

RepoIdentifiers == {Physics, ChemPh}

\* a Category as a caller builds it: the identifier and nothing else
Bare(identifier) == Category(identifier, NULL, NULL, NULL, {})

\* the sets of at most n elements of S, the empty one excluded
Batches(S, n) == {B \in SUBSET S : B # {} /\ Cardinality(B) <= n}

RepoCategoryBatches == Batches({Bare(i) : i \in RepoIdentifiers}, MaxBatch)

ArxivIds == {"p1", "p2"}

RepoPapers ==
    {Paper(a, title, "a1", "2023-01-01", cs) :
        a \in ArxivIds,
        title \in {"t1", "t2"},
        cs \in {{}, {Bare(ChemPh)}, {Bare(Physics), Bare(ChemPh)}}}

\* a set of papers holds one paper per arxiv_id
RepoPaperBatches ==
    {B \in Batches(RepoPapers, MaxBatch) : \A p, q \in B : p.arxiv_id = q.arxiv_id => p = q}

CategoryIdsWithin(s, n) == \A r \in s.category : r.id <= n

PaperIdsWithin(s, n) == \A r \in s.paper : r.id <= n

Init ==
    /\ db = EmptyStore
    /\ session = EmptyStore
    /\ scope = "closed"
    /\ calls = 0
    /\ foreign_keys \in BOOLEAN
    /\ last = NoCall
    /\ page = NoParse
    /\ conv = NoConversion
    /\ json = NoScan
    /\ rss = NoRun

\* the repository driven through one session
Next ==
    \/ Return
    \/ Enter
    \/ \E categories \in RepoCategoryBatches :
         /\ UpsertCategories(categories)
         /\ CategoryIdsWithin(session', MaxCategoryId)
         /\ UNCHANGED calls
    \/ \E papers \in RepoPaperBatches :
         /\ UpsertPapers(papers)
         /\ PaperIdsWithin(session', MaxPaperId)
         /\ UNCHANGED calls
    \/ \E p \in RepoPapers :
         /\ UpsertPaperList(<<p, p>>)
         /\ PaperIdsWithin(session', MaxPaperId)
         /\ UNCHANGED calls
    \/ \E arxiv_ids \in Batches(ArxivIds, MaxBatch) :
         DeletePapers(arxiv_ids) /\ UNCHANGED calls
    \/ \E identifiers \in Batches(RepoIdentifiers, MaxBatch) :
         DeleteCategories(identifiers) /\ UNCHANGED calls

Spec == Init /\ [][Next]_vars

(***************************************************************************)
(* The paper operations of the repository driven through one session: the  *)
(* one category physics.chem-ph is stored and deleted, papers that carry   *)
(* it or no category are upserted, as a set and as a list naming a paper   *)
(* twice, and deleted.                                                     *)
(***************************************************************************)
PaperOpsPapers == {p \in RepoPapers : p.categories \subseteq {Bare(ChemPh)}}

PaperOpsBatches ==
    {B \in Batches(PaperOpsPapers, MaxBatch) : \A p, q \in B : p.arxiv_id = q.arxiv_id => p = q}

NextPapers ==
    \/ Return
    \/ Enter
    \/ UpsertCategories({Bare(ChemPh)})
         /\ CategoryIdsWithin(session', MaxCategoryId)
         /\ UNCHANGED calls
    \/ \E papers \in PaperOpsBatches :
         /\ UpsertPapers(papers)
         /\ PaperIdsWithin(session', MaxPaperId)
         /\ UNCHANGED calls
    \/ \E p \in PaperOpsPapers :
         /\ UpsertPaperList(<<p, p>>)
         /\ PaperIdsWithin(session', MaxPaperId)
         /\ UNCHANGED calls
    \/ \E arxiv_ids \in Batches(ArxivIds, MaxBatch) :
         DeletePapers(arxiv_ids) /\ UNCHANGED calls
    \/ DeleteCategories({ChemPh}) /\ UNCHANGED calls

SpecPapers == Init /\ [][NextPapers]_vars

(***************************************************************************)
(* The category operations of the repository driven through one session:   *)
(* physics and physics.chem-ph are upserted and deleted, and one paper     *)
(* that carries them is upserted.                                          *)
(***************************************************************************)
CategoryOpsPapers ==
    {Paper("p1", "t1", "a1", "2023-01-01", cs) :
        cs \in {{Bare(Physics)}, {Bare(Physics), Bare(ChemPh)}}}

NextCategories ==
    \/ Return
    \/ Enter
    \/ \E categories \in RepoCategoryBatches :
         /\ UpsertCategories(categories)
         /\ CategoryIdsWithin(session', MaxCategoryId + 1)
         /\ UNCHANGED calls
    \/ \E p \in CategoryOpsPapers :
         /\ UpsertPapers({p})
         /\ PaperIdsWithin(session', MaxPaperId)
         /\ UNCHANGED calls
    \/ \E identifiers \in Batches(RepoIdentifiers, MaxBatch) :
         DeleteCategories(identifiers) /\ UNCHANGED calls

SpecCategories == Init /\ [][NextCategories]_vars

(***************************************************************************)
(* The unit of work: scopes that are entered, written in, committed,       *)
(* rolled back and left, at most MaxCalls repository calls in each.        *)
(***************************************************************************)
UowCategoryBatches == {{Bare(ChemPh)}}

UowPaperBatches ==
    {{Paper("p1", "t1", "a1", "2023-01-01", cs)} : cs \in {{}, {Bare(ChemPh)}}}

Budgeted == calls < MaxCalls /\ calls' = calls + 1

NextUow ==
    \/ Return
    \/ Enter
    \/ Commit
    \/ Rollback
    \/ Exit
    \/ \E categories \in UowCategoryBatches :
         /\ UpsertCategories(categories)
         /\ CategoryIdsWithin(session', MaxCategoryId)
         /\ Budgeted
    \/ \E papers \in UowPaperBatches :
         /\ UpsertPapers(papers)
         /\ PaperIdsWithin(session', MaxPaperId)
         /\ Budgeted
    \/ DeletePapers({"p1"}) /\ Budgeted
    \/ DeleteCategories({ChemPh}) /\ Budgeted

SpecUow == Init /\ [][NextUow]_vars

(***************************************************************************)
(* The services: the taxonomy is fetched and papers are ingested.          *)
(***************************************************************************)
CategoryDTO(archive, subcategory, archive_name, category_name, description) ==
    [archive |-> archive, subcategory |-> subcategory, archive_name |-> archive_name,
     category_name |-> category_name, description |-> description]

PaperDTO(arxiv_id, title, abstract, published_at, categories) ==
    [arxiv_id |-> arxiv_id, title |-> title, abstract |-> abstract,
     published_at |-> published_at, categories |-> categories]

\* what the taxonomy page may hold
TaxonomyDtos ==
    {CategoryDTO("physics", NULL, "Physics", NULL, NULL),
     CategoryDTO("physics", "chem-ph", "Physics", "Chemical Physics", "chem"),
     CategoryDTO("chem-ph", NULL, "Chemistry", NULL, NULL)}

CategoryExtractors ==
    {[raises |-> "none", category_dtos |-> B] : B \in Batches(TaxonomyDtos, MaxBatch)}
    \cup {[raises |-> e, category_dtos |-> {}] : e \in {"CategoryFetchError", "CategoryParseError"}}

\* the category strings a caller may ask for
RequestStrings == {<<"physics">>, <<"physics", "chem-ph">>, <<"chem-ph">>}

\* a string CategoryIdentifier.from_string refuses
Malformed == <<"physics", "chem-ph", "x">>

Requests ==
    {B \in SUBSET RequestStrings : Cardinality(B) <= MaxBatch}
    \cup {{Malformed}, {<<"physics">>, Malformed}}

DtoCategorySets ==
    {{}, {<<"chem-ph">>}, {<<"physics", "chem-ph">>},
     {<<"chem-ph">>, <<"physics", "chem-ph">>}, {<<"physics">>, <<"physics", "chem-ph">>}}

\* what a paper source may return
Feeds ==
    {{}}
    \cup {{PaperDTO("p1", "t1", "a1", "2023-01-01", cs)} : cs \in DtoCategorySets}
    \cup {{PaperDTO("p1", "t1", "a1", "2023-01-01", cs),
           PaperDTO("p2", "t1", "a1", "2023-01-02", {<<"physics", "chem-ph">>})} :
            cs \in {{}, {<<"chem-ph">>}}}

PaperExtractors ==
    {[raises |-> "none", paper_dtos |-> f] : f \in Feeds}
    \cup {[raises |-> "PaperMissingFieldError", paper_dtos |-> {}]}

NextServices ==
    \/ Return
    \/ \E extractor \in CategoryExtractors :
         /\ FetchAndStoreCategories(extractor)
         /\ CategoryIdsWithin(db', MaxTaxonomyId)
    \/ \E adapter \in PaperExtractors :
         /\ \/ FetchAndStoreLatestPapers(TRUE, {}, adapter)
            \/ \E category_strings \in Requests :
                 FetchAndStoreLatestPapers(FALSE, category_strings, adapter)
         /\ PaperIdsWithin(db', MaxPaperId)
    \/ \E adapter \in PaperExtractors :
         /\ \/ FetchAndStoreHistoricalPapers(TRUE, {}, adapter)
            \/ \E category_strings \in Requests :
                 FetchAndStoreHistoricalPapers(FALSE, category_strings, adapter)
         /\ PaperIdsWithin(db', MaxPaperId)

SpecServices == Init /\ [][NextServices]_vars

(***************************************************************************)
(* RSSPaperExtractor.fetch_latest: the loop over the work queue.           *)
(***************************************************************************)
\* one turn of `while categories_queue:` in which _fetch_papers returns result
RssFetch(result) ==
    /\ rss.pc = "running"
    /\ rss.categories_queue # <<>>
    /\ rss.fetches < MaxFetches
    /\ LET categories == Head(rss.categories_queue)
           split == should_split_categories(result, categories)
       IN \E order \in Orderings(IF split THEN SplitTarget(categories) ELSE {}) :
            LET new_categories == IF split THEN split_categories(order) ELSE <<>>
            IN
            rss' = [rss EXCEPT
                      !.categories_queue = Tail(rss.categories_queue) \o new_categories,
                      !.total = IF split THEN PbarTotal(rss.total, new_categories)
                                ELSE rss.total,
                      !.n = rss.n + 1,
                      !.caller = IF split /\ rss.fetches = 0
                                 THEN AfterSplit(rss.caller) ELSE rss.caller,
                      !.result_len = Cardinality(result),
                      !.fetches = rss.fetches + 1,
                      !.splits = rss.splits + (IF split THEN 1 ELSE 0),
                      !.paper_dtos = UpdateDtos(rss.paper_dtos, result),
                      !.entries = rss.entries \cup result,
                      !.overlap =
                          rss.overlap \/ ArxivIdsOf(result) \cap ArxivIdsOf(rss.paper_dtos) # {}]
    /\ UNCHANGED <<db, session, scope, calls, foreign_keys, last, json, conv, page>>

\* a turn in which _fetch_papers meets an entry without a required field
RssFetchRaises ==
    /\ rss.pc = "running"
    /\ rss.categories_queue # <<>>
    /\ rss.fetches < MaxFetches
    /\ rss' = [rss EXCEPT !.pc = "raised", !.fetches = rss.fetches + 1]
    /\ UNCHANGED <<db, session, scope, calls, foreign_keys, last, json, conv, page>>

\* the queue is empty: return paper_dtos
RssReturn ==
    /\ rss.pc = "running"
    /\ rss.categories_queue = <<>>
    /\ rss' = [rss EXCEPT !.pc = "done"]
    /\ UNCHANGED <<db, session, scope, calls, foreign_keys, last, json, conv, page>>

\* the taxonomy the categories handed to the source are resolved from
RssTaxonomy ==
    [EmptyStore EXCEPT !.category =
        UpsertCategoryRows({}, <<Category(Physics, "Physics", NULL, NULL, {}),
                                 Category(ChemPh, "Physics", "Chemical Physics", "chem", {}),
                                 Category(CategoryIdentifier("physics", "optics"),
                                          "Physics", "Optics", "opt", {}),
                                 Category(CategoryIdentifier("math", NULL),
                                          "Mathematics", NULL, NULL, {})>>)]

\* the categories a service may hand to fetch_latest: resolved ones and their
\* legacy aliases
RssCategories ==
    UnionUpdate(Range(list_categories(RssTaxonomy)),
                get_legacy_categories(Range(list_categories(RssTaxonomy))))

\* the entries the feed may return: two versions of paper 1 and one of each
\* other paper, as many papers as the cap
RssEntries ==
    {PaperDTO("1", "t2", "a1", "2023-01-01", {<<"physics", "chem-ph">>})}
    \cup {PaperDTO(ToString(i), "t1", "a1", "2023-01-01",
                    {IF i = 1 THEN <<"physics", "chem-ph">> ELSE <<"physics", "optics">>}) :
            i \in 1..RSS_FEED_LIMIT}

\* what one request may return: at most the cap, one DTO per arxiv_id
RssResults ==
    {result \in SUBSET RssEntries :
        /\ Cardinality(result) <= RSS_FEED_LIMIT
        /\ Cardinality(ArxivIdsOf(result)) = Cardinality(result)}

InitRss ==
    /\ db = EmptyStore
    /\ session = EmptyStore
    /\ scope = "closed"
    /\ calls = 0
    /\ foreign_keys \in BOOLEAN
    /\ last = NoCall
    /\ page = NoParse
    /\ conv = NoConversion
    /\ json = NoScan
    /\ \E categories \in SUBSET RssCategories :
         rss = [NoRun EXCEPT !.pc = "running", !.categories_queue = <<categories>>,
                             !.total = 1, !.caller = categories, !.given = categories]

NextRss ==
    \/ \E result \in RssResults : RssFetch(result)
    \/ RssFetchRaises
    \/ RssReturn

\* the loop keeps running while it can
SpecRss == InitRss /\ [][NextRss]_vars /\ WF_vars(NextRss)

(***************************************************************************)
(* JSONPaperExtractor.fetch_historical: the loop over the lines.           *)
(***************************************************************************)
\* the file is opened and the caller's set is extended by the subcategories
JsonOpen ==
    /\ json.pc = "called"
    /\ json' = [json EXCEPT !.pc = "reading",
                            !.categories = ExpandSubcategories(json.categories)]
    /\ UNCHANGED <<db, session, scope, calls, foreign_keys, last, rss, conv, page>>

\* one turn of the loop over the lines: the record is validated, converted
\* and kept when it passes the filters; entries.add keeps the DTO it holds
JsonLine ==
    /\ json.pc = "reading"
    /\ json.line < Len(json.file)
    /\ LET raw == json.file[json.line + 1]
           entry == JsonToPaperDto(raw)
       IN IF ~JsonEntryValid(raw)
          THEN json' = [json EXCEPT !.pc = "raised", !.err = "ValidationError",
                                    !.line = json.line + 1]
          ELSE json' = [json EXCEPT
                          !.line = json.line + 1,
                          !.entries =
                              IF /\ JsonCategoryMatch(entry, json.categories)
                                 /\ JsonDateMatch(entry, json.from_date, json.to_date)
                              THEN UpdateDtos(json.entries, {entry})
                              ELSE json.entries]
    /\ UNCHANGED <<db, session, scope, calls, foreign_keys, last, rss, conv, page>>

\* the file is exhausted: return entries
JsonReturn ==
    /\ json.pc = "reading"
    /\ json.line = Len(json.file)
    /\ json' = [json EXCEPT !.pc = "done"]
    /\ UNCHANGED <<db, session, scope, calls, foreign_keys, last, rss, conv, page>>

\* the category sets a service may hand to fetch_historical
JsonCategorySets == {B \in SUBSET RssCategories : Cardinality(B) <= MaxBatch}

\* one paper per day of the month, each in physics.chem-ph
JsonDayFile ==
    [d \in 1..MaxDay |-> RawEntry(ToString(d), "t1", "a1", d, <<<<"physics", "chem-ph">>>>)]

\* papers of several categories, one under its legacy name, one listed twice
JsonMixedFile ==
    <<RawEntry("p1", "t1", "a1", 2, <<<<"math">>>>),
      RawEntry("p2", "t1", "a1", 3, <<<<"physics", "optics">>, <<"math">>>>),
      RawEntry("p3", "t1", "a1", 3, <<<<"chem-ph">>>>),
      RawEntry("p1", "t2", "a1", 4, <<<<"physics">>, <<"math">>>>)>>

\* a file with a record that lacks the categories key
JsonBadFile ==
    <<RawEntry("p1", "t1", "a1", 1, <<<<"physics">>>>),
      RawEntry("p2", "t1", "a1", 2, NULL),
      RawEntry("p3", "t1", "a1", 3, <<<<"math">>>>)>>

JsonFiles == {JsonDayFile, JsonMixedFile, JsonBadFile}

InitJson ==
    /\ db = EmptyStore
    /\ session = EmptyStore
    /\ scope = "closed"
    /\ calls = 0
    /\ foreign_keys \in BOOLEAN
    /\ last = NoCall
    /\ page = NoParse
    /\ conv = NoConversion
    /\ rss = NoRun
    /\ \E categories \in JsonCategorySets, from_date, to_date \in 0..MaxDay, file \in JsonFiles :
         json = [NoScan EXCEPT !.pc = "called", !.categories = categories,
                               !.given = categories, !.from_date = from_date,
                               !.to_date = to_date, !.file = file]

NextJson ==
    \/ JsonOpen
    \/ JsonLine
    \/ JsonReturn

SpecJson == InitJson /\ [][NextJson]_vars

(***************************************************************************)
(* CategoryIdentifier: a string is parsed and the identifier is printed    *)
(* and parsed again.                                                       *)
(***************************************************************************)
\* CategoryIdentifier.from_string(category_string)
ConvFromString ==
    /\ conv.pc = "given"
    /\ conv' = IF ValidCategoryString(conv.category_string)
               THEN [conv EXCEPT !.pc = "parsed",
                                 !.identifier = from_string(conv.category_string)]
               ELSE [conv EXCEPT !.pc = "raised"]
    /\ UNCHANGED <<db, session, scope, calls, foreign_keys, last, rss, json, page>>

\* str(identifier) and from_string of it
ConvStr ==
    /\ conv.pc = "parsed"
    /\ conv' = [conv EXCEPT !.pc = "printed",
                            !.str = Str(conv.identifier),
                            !.again = from_string(Str(conv.identifier))]
    /\ UNCHANGED <<db, session, scope, calls, foreign_keys, last, rss, json, page>>

\* the '.'-free segments a string is made of, the empty one included
Segments == {"", "cs", "AI", "physics", "chem-ph"}

\* the strings of one to MaxParts segments
CategoryStrings == UNION {[1..n -> Segments] : n \in 1..MaxParts}

InitConv ==
    /\ db = EmptyStore
    /\ session = EmptyStore
    /\ scope = "closed"
    /\ calls = 0
    /\ foreign_keys \in BOOLEAN
    /\ last = NoCall
    /\ page = NoParse
    /\ rss = NoRun
    /\ json = NoScan
    /\ \E category_string \in CategoryStrings :
         conv = [NoConversion EXCEPT !.pc = "given", !.category_string = category_string]

NextConv ==
    \/ ConvFromString
    \/ ConvStr

SpecConv == InitConv /\ [][NextConv]_vars

(***************************************************************************)
(* ArXivCategoryExtractor._extract_categories: the loop over the elements. *)
(***************************************************************************)
\* one turn of the loop over soup.find_all(["h2", "h3", "h4", "p"])
PageElement ==
    /\ page.pc = "parsing"
    /\ page.i < Len(page.elements)
    /\ LET element == page.elements[page.i + 1]
           next == [page EXCEPT !.i = page.i + 1]
       IN page' =
            CASE element.name = "h2" -> parse_group_header(next, element)
              [] element.name = "h3" -> parse_archive_header(next, element)
              [] element.name = "h4" ->
                   IF CategoryPatternMatches(element)
                   THEN parse_category_header(next, element)
                   ELSE [next EXCEPT !.pc = "raised"]
              [] element.name = "p" ->
                   IF page.archive = NULL
                   THEN [next EXCEPT !.pc = "raised"]
                   ELSE [next EXCEPT !.categories =
                            page.categories \cup {create_category_dto(page, element)}]
    /\ UNCHANGED <<db, session, scope, calls, foreign_keys, last, rss, json, conv>>

\* the elements are exhausted: return categories | archive_categories
PageReturn ==
    /\ page.pc = "parsing"
    /\ page.i = Len(page.elements)
    /\ page' = [page EXCEPT !.pc = "done",
                            !.result = page.categories \cup archive_categories(page.categories)]
    /\ UNCHANGED <<db, session, scope, calls, foreign_keys, last, rss, json, conv>>

\* the elements a taxonomy page is made of
PageElements ==
    {Element("h2", "Physics", <<>>, NULL),
     Element("h3", "Physics", <<"physics">>, "physics"),
     Element("h3", "", <<>>, NULL),
     Element("h4", "physics.chem-ph (Chemical Physics)", <<"physics", "chem-ph">>,
             "Chemical Physics"),
     Element("h4", "nucl-th (Nuclear Theory)", <<"nucl-th">>, "Nuclear Theory"),
     Element("h4", "MISSING_HEADER", <<"MISSING_HEADER">>, NULL),
     Element("p", "d1", <<>>, NULL)}

\* the pages of at most MaxElements elements
Pages == UNION {[1..n -> PageElements] : n \in 0..MaxElements}

InitPage ==
    /\ db = EmptyStore
    /\ session = EmptyStore
    /\ scope = "closed"
    /\ calls = 0
    /\ foreign_keys \in BOOLEAN
    /\ last = NoCall
    /\ rss = NoRun
    /\ json = NoScan
    /\ conv = NoConversion
    /\ \E elements \in Pages : page = [NoParse EXCEPT !.pc = "parsing", !.elements = elements]

NextPage ==
    \/ PageElement
    \/ PageReturn

SpecPage == InitPage /\ [][NextPage]_vars

(***************************************************************************)
(* Properties.                                                             *)
(***************************************************************************)
IngestOps == {"fetch_and_store_latest_papers", "fetch_and_store_historical_papers"}

ServiceOps == IngestOps \cup {"fetch_and_store_categories"}

\* what a scope entered on the engine e right now would list
VisibleCategories(e) == list_categories(UowEnter([db |-> e, session |-> e]).session)

VisiblePapers(e) == list_papers(UowEnter([db |-> e, session |-> e]).session)

\* C1: a service call that fails, for whatever reason, leaves the persisted
\* categories and papers a later scope sees exactly as they were before it.
C1_FailedServiceCallLeavesStateUnchanged ==
    [][(last'.op \in ServiceOps /\ last'.err # "none")
          => /\ VisibleCategories(db') = VisibleCategories(db)
             /\ VisiblePapers(db') = VisiblePapers(db)
             /\ db' = db]_vars

\* a service call failed after it had written into its scope
C1_Witness ==
    /\ last.op \in ServiceOps
    /\ last.err = "OperationalError"
    /\ db # EmptyStore

\* every association of the view s joins a paper row to a category row
AssociationsJoinRows(s) ==
    \A a \in s.paper_category :
        /\ a.paper_id \in {p.id : p \in s.paper}
        /\ a.category_id \in {c.id : c \in s.category}

\* C2: after any sequence of upserts and deletes every paper-category
\* association, in the session and in the committed tables, joins a paper
\* row that exists to a category row that exists.
C2_NoDanglingAssociation == AssociationsJoinRows(session) /\ AssociationsJoinRows(db)

\* the papers of a batch name a category the view s holds no row of
NamesAbsentCategory(papers, s) ==
    \E p \in papers : \E c \in p.categories :
        Str(c.identifier) \notin {SqlIdentifier(r) : r \in s.category}

\* C4: upsert_papers of a batch that names an absent category raises
\* CategoriesNotFoundError and leaves the tables as they were.
C4_UpsertPapersRejectsBatchAtomically ==
    [][(last'.op = "upsert_papers" /\ NamesAbsentCategory(last'.papers, session))
          => (last'.err = "CategoriesNotFoundError" /\ session' = session)]_vars

\* C5: entering a scope shows exactly the committed tables; a repository call
\* touches only the scope's session; commit makes the session's writes the
\* committed tables; rollback and exit discard what is not committed and
\* leave what is.
C5_ScopeVisibility ==
    [][/\ last'.op = "enter" => (session' = db /\ db' = db)
       /\ last'.op = "commit" => (db' = session /\ session' = session)
       /\ last'.op \in {"rollback", "exit"} => (session' = db /\ db' = db)
       /\ last'.op \in {"upsert_categories", "upsert_papers",
                        "delete_papers", "delete_categories"} => db' = db]_vars

\* a scope is left with uncommitted writes discarded and committed ones kept
C5_Witness ==
    /\ last.op = "exit"
    /\ last.dirty
    /\ db # EmptyStore
    /\ session = db

\* a DTO carries a category string whose canonical form is the identifier of
\* no category row of the view s
CarriesUnknownCategory(paper_dtos, s) ==
    \E dto \in paper_dtos : \E category_str \in dto.categories :
        Canonical(category_str) \notin {SqlIdentifier(r) : r \in s.category}

MissingIdentifiers(category_strings, s) ==
    {from_string(x) : x \in {y \in category_strings :
        ValidCategoryString(y) /\ SqlIdentifier([archive |-> from_string(y).archive,
                                                 subcategory |-> from_string(y).subcategory])
                                    \notin {SqlIdentifier(r) : r \in s.category}}}

\* C6: a request of well-formed strings of which some are absent fails with
\* one CategoriesNotFoundError that carries exactly all the missing
\* identifiers, returns nothing and never calls the source.
C6_ResolutionReportsAllMissing ==
    (/\ last.op \in IngestOps
     /\ ~last.all_categories
     /\ \A x \in last.category_strings : ValidCategoryString(x)
     /\ MissingIdentifiers(last.category_strings, db) # {})
       => /\ last.err = "CategoriesNotFoundError"
          /\ last.ids = MissingIdentifiers(last.category_strings, db)
          /\ ~last.fetched
          /\ last.papers = {}

\* C7: with no requested categories and a taxonomy that is not empty, the
\* resolved categories are exactly the archive-level ones.
C7_NullRequestResolvesTopLevel ==
    (/\ last.op \in IngestOps
     /\ last.all_categories
     /\ db.category # {})
       => Identifiers(last.resolved) =
            {CategoryIdentifier(r.archive, NULL) : r \in {q \in db.category : q.subcategory = NULL}}

\* C8: with no requested categories and no stored category, the ingestion
\* fails with NoCategoriesError, never calls the source and writes nothing.
C8_NullRequestOnEmptyRepository ==
    [][(/\ last'.op \in IngestOps
        /\ last'.all_categories
        /\ db.category = {})
          => /\ last'.err = "NoCategoriesError"
             /\ ~last'.fetched
             /\ last'.papers = {}
             /\ db' = db]_vars

\* an ingestion without requested categories met an empty repository
C8_Witness ==
    /\ last.op \in IngestOps
    /\ last.all_categories
    /\ last.err = "NoCategoriesError"
    /\ db.category = {}

\* the legacy aliases of a canonical identifier string, read off the table
LegacyAliases(canonical) ==
    {LEGACY_ITEMS[i][1] : i \in {j \in DOMAIN LEGACY_ITEMS : LEGACY_ITEMS[j][2] = canonical}}

\* d carries the legacy alias of c as identifier and c's descriptive fields
IsLegacyOf(d, c) ==
    /\ \E alias \in LegacyAliases(Str(c.identifier)) : Str(d.identifier) = alias
    /\ d.identifier.subcategory = NULL
    /\ d.archive_name = c.archive_name
    /\ d.category_name = c.category_name
    /\ d.description = c.description

\* C9 as stated: the source is called with the resolved categories and, for
\* every resolved category that has a legacy alias, one category with the
\* alias as identifier and the canonical category's descriptive fields;
\* nothing else is added, nothing resolved is removed.
C9_SourceGetsResolvedAndLegacy ==
    (last.op \in IngestOps /\ last.fetched)
      => /\ last.resolved \subseteq last.categories
         /\ \A c \in last.resolved :
              LegacyAliases(Str(c.identifier)) # {}
                => Cardinality({d \in last.categories : IsLegacyOf(d, c)}) = 1
         /\ \A d \in last.categories \ last.resolved :
              \E c \in last.resolved : IsLegacyOf(d, c)

\* C9 amended: as above, but a legacy category is added only when no
\* resolved category already has the alias as its identifier; such a
\* resolved category stays as resolved.
C9_SourceGetsResolvedAndLegacyUnlessPresent ==
    (last.op \in IngestOps /\ last.fetched)
      => /\ last.resolved \subseteq last.categories
         /\ \A c \in last.resolved :
              (/\ LegacyAliases(Str(c.identifier)) # {}
               /\ \A alias \in LegacyAliases(Str(c.identifier)) :
                     alias \notin {Str(r.identifier) : r \in last.resolved})
                => Cardinality({d \in last.categories : IsLegacyOf(d, c)}) = 1
         /\ \A d \in last.categories \ last.resolved :
              \E c \in last.resolved : IsLegacyOf(d, c)
         /\ Cardinality(Identifiers(last.categories)) = Cardinality(last.categories)

\* the source was called with a legacy category made from a resolved one
C9_Witness ==
    /\ last.op \in IngestOps
    /\ last.fetched
    /\ \E c \in last.resolved : \E d \in last.categories \ last.resolved : IsLegacyOf(d, c)

\* the stored categories a set of raw category strings stands for
LookedUp(category_strs, s) ==
    {c \in Range(list_categories(s)) :
        Str(c.identifier) \in {Canonical(x) : x \in category_strs}}

\* C10: after a successful ingestion every returned paper and every stored
\* paper of the fetch has as categories exactly the stored categories its
\* DTO's strings stand for, a legacy string and its canonical form standing
\* for one category.
C10_PaperCategoriesAreCanonicalLookup ==
    (last.op \in IngestOps /\ last.err = "none")
      => \A dto \in last.paper_dtos :
           /\ \E p \in last.papers :
                 /\ p.arxiv_id = dto.arxiv_id
                 /\ Identifiers(p.categories) = Identifiers(LookedUp(dto.categories, db))
                 /\ p.categories \subseteq LookedUp(dto.categories, db)
           /\ \E q \in get_paper(db, dto.arxiv_id) :
                 /\ Identifiers(q.categories) = Identifiers(LookedUp(dto.categories, db))
                 /\ q.categories \subseteq LookedUp(dto.categories, db)

\* the key set and the value set of a dict
Keys(dict) == DOMAIN dict

Values(dict) == {dict[k] : k \in DOMAIN dict}

\* C11: the legacy-alias table is a bijection with exactly 18 entries: no two
\* legacy names share a canonical name, CANONICAL_TO_LEGACY_CATEGORIES is
\* the exact inverse of LEGACY_TO_CANONICAL_CATEGORIES, and no string is
\* both a legacy key and a canonical value; every legacy alias an ingestion
\* hands to the source maps back through the table to a category it resolved.
C11_LegacyTableIsBijection ==
    /\ Len(LEGACY_ITEMS) = 18
    /\ Cardinality(Keys(LEGACY_TO_CANONICAL_CATEGORIES)) = 18
    /\ Cardinality(Values(LEGACY_TO_CANONICAL_CATEGORIES)) = 18
    /\ Keys(CANONICAL_TO_LEGACY_CATEGORIES) = Values(LEGACY_TO_CANONICAL_CATEGORIES)
    /\ Values(CANONICAL_TO_LEGACY_CATEGORIES) = Keys(LEGACY_TO_CANONICAL_CATEGORIES)
    /\ \A legacy \in Keys(LEGACY_TO_CANONICAL_CATEGORIES) :
         CANONICAL_TO_LEGACY_CATEGORIES[LEGACY_TO_CANONICAL_CATEGORIES[legacy]] = legacy
    /\ \A canonical \in Keys(CANONICAL_TO_LEGACY_CATEGORIES) :
         LEGACY_TO_CANONICAL_CATEGORIES[CANONICAL_TO_LEGACY_CATEGORIES[canonical]] = canonical
    /\ Keys(LEGACY_TO_CANONICAL_CATEGORIES) \cap Values(LEGACY_TO_CANONICAL_CATEGORIES) = {}
    /\ last.op \in IngestOps =>
         \A d \in last.categories \ last.resolved :
            /\ Str(d.identifier) \in Keys(LEGACY_TO_CANONICAL_CATEGORIES)
            /\ \E c \in last.resolved :
                  Str(c.identifier) = LEGACY_TO_CANONICAL_CATEGORIES[Str(d.identifier)]

\* an ingestion used the table in both directions: the source was asked for
\* the legacy alias of a resolved category and a paper tagged with the legacy
\* name came back with the canonical category
C11_Witness ==
    /\ last.op \in IngestOps
    /\ last.err = "none"
    /\ \E c \in last.resolved : \E d \in last.categories :
          /\ Str(c.identifier) \in Keys(CANONICAL_TO_LEGACY_CATEGORIES)
          /\ Str(d.identifier) = CANONICAL_TO_LEGACY_CATEGORIES[Str(c.identifier)]
    /\ \E dto \in last.paper_dtos : \E p \in last.papers :
          /\ p.arxiv_id = dto.arxiv_id
          /\ \E x \in dto.categories :
                /\ x \in Keys(LEGACY_TO_CANONICAL_CATEGORIES)
                /\ LEGACY_TO_CANONICAL_CATEGORIES[x] \in {Str(c.identifier) : c \in p.categories}

\* C12: an ingestion whose source returned its DTOs and whose storage did not
\* fail succeeds, and every category its DTOs name is then stored: the ones
\* that were missing have been created.
C12_UnknownCategoriesAreCreated ==
    (/\ last.op \in IngestOps
     /\ last.fetched
     /\ last.err \notin {"OperationalError", "PaperMissingFieldError"})
       => /\ last.err = "none"
          /\ \A dto \in last.paper_dtos : \A category_str \in dto.categories :
                Canonical(category_str) \in {SqlIdentifier(r) : r \in db.category}

\* C13: fetch_latest terminates for every category set and every behaviour
\* of the feed: the run returns or raises.
C13_FetchLatestTerminates == <>(rss.pc \in {"done", "raised"})

\* a run returned after it had split a work item
C13_Witness ==
    /\ rss.pc = "done"
    /\ rss.categories_queue = <<>>
    /\ rss.splits > 0

\* C14: the set fetch_latest returns holds a DTO for every entry any fetch of
\* the run returned, the fetches of split work items included, nothing
\* else, and at most one DTO per arxiv_id.
C14_ResultIsUnionOfAllFetches ==
    rss.pc = "done"
      => /\ ArxivIdsOf(rss.paper_dtos) = ArxivIdsOf(rss.entries)
         /\ rss.paper_dtos \subseteq rss.entries
         /\ Cardinality(ArxivIdsOf(rss.paper_dtos)) = Cardinality(rss.paper_dtos)

\* a run returned after a split and after two fetches returned the same paper
C14_Witness ==
    /\ rss.pc = "done"
    /\ rss.splits > 0
    /\ rss.overlap
    /\ Cardinality(rss.entries) > Cardinality(rss.paper_dtos)

\* the view s holds one paper row per arxiv_id
OnePaperRowPerArxivId(s) ==
    \A r, q \in s.paper : r.arxiv_id = q.arxiv_id => r = q

\* C15: every upsert_papers call, a batch that names a paper twice included,
\* leaves one paper row per arxiv_id; after a call that returned, the row of
\* every upserted paper has that paper's title, abstract and published_at,
\* and the rows of the other papers are the ones they had.
C15_PaperUpsertIsIdempotent ==
    [][last'.op = "upsert_papers"
          => /\ OnePaperRowPerArxivId(session')
             /\ last'.err = "none"
                  => /\ \A p \in last'.papers :
                          \E r \in session'.paper :
                             /\ r.arxiv_id = p.arxiv_id
                             /\ r.title = p.title
                             /\ r.abstract = p.abstract
                             /\ r.published_at = p.published_at
                     /\ \A r \in session.paper :
                          r.arxiv_id \notin {p.arxiv_id : p \in last'.papers}
                             => r \in session'.paper
                     /\ {r.arxiv_id : r \in session'.paper}
                          = {r.arxiv_id : r \in session.paper}
                            \cup {p.arxiv_id : p \in last'.papers}]_vars

\* a paper stored before another one was upserted again, alone, and its row
\* has the title of this upsert
C15_Witness ==
    /\ last.op = "upsert_papers"
    /\ last.err = "none"
    /\ \E p \in last.papers : \E r, q \in session.paper :
          /\ last.papers = {p}
          /\ r.arxiv_id = p.arxiv_id
          /\ r.id < q.id
          /\ r.title = "t2"

\* C16: after upsert_papers returned, every paper of the batch that was
\* stored before has exactly the categories of the upserted Paper, an empty
\* category set included.
C16_UpdateReplacesCategories ==
    [][(last'.op = "upsert_papers" /\ last'.err = "none")
          => \A p \in last'.papers :
               p.arxiv_id \in {r.arxiv_id : r \in session.paper}
                 => \E q \in get_paper(session', p.arxiv_id) :
                       Identifiers(q.categories) = Identifiers(p.categories)]_vars

\* p read back from the view s: the same fields and an equal category set
ReadsBack(s, p) ==
    \E q \in get_paper(s, p.arxiv_id) :
        /\ q.arxiv_id = p.arxiv_id
        /\ q.title = p.title
        /\ q.abstract = p.abstract
        /\ q.published_at = p.published_at
        /\ Identifiers(q.categories) = Identifiers(p.categories)

\* C17: after upsert_papers stored papers whose categories all exist,
\* get_paper returns each of them with the same arxiv_id, title, abstract
\* and published_at and an equal category set.
C17_UpsertGetRoundTrip ==
    [][(/\ last'.op = "upsert_papers"
        /\ last'.err = "none"
        /\ ~NamesAbsentCategory(last'.papers, session))
          => \A p \in last'.papers : ReadsBack(session', p)]_vars

\* the view s holds one category row per (archive, subcategory)
OneCategoryRowPerIdentifier(s) ==
    \A r, q \in s.category :
        (r.archive = q.archive /\ r.subcategory = q.subcategory) => r = q

\* C18: after any sequence of upsert_categories calls there is one category
\* row per (archive, subcategory) identifier, archive-level identifiers
\* (subcategory null) included.
C18_CategoryUpsertIsIdempotent ==
    OneCategoryRowPerIdentifier(session) /\ OneCategoryRowPerIdentifier(db)

\* the requested arxiv ids the view s holds no paper row of
MissingPapers(arxiv_ids, s) == arxiv_ids \ {r.arxiv_id : r \in s.paper}

\* C19: delete_papers asked for a paper that is not stored raises
\* PapersNotFoundError with exactly all the missing ids and deletes nothing:
\* papers and associations are as before.
C19_DeletePapersAllOrNothing ==
    [][(last'.op = "delete_papers" /\ MissingPapers(last'.arxiv_ids, session) # {})
          => /\ last'.err = "PapersNotFoundError"
             /\ last'.ids = MissingPapers(last'.arxiv_ids, session)
             /\ session' = session]_vars

\* delete_papers was asked for a stored paper that has a category together
\* with a missing one, raised, and the stored one is still there
C19_Witness ==
    /\ last.op = "delete_papers"
    /\ last.err = "PapersNotFoundError"
    /\ last.ids # {}
    /\ \E a \in last.arxiv_ids \ last.ids :
          \E q \in get_paper(session, a) : q.categories # {}

\* the requested identifiers the view s holds no category row of
MissingCategories(category_identifiers, s) ==
    {i \in category_identifiers :
        \A r \in s.category : r.archive # i.archive \/ r.subcategory # i.subcategory}

\* C20: delete_categories asked for an identifier that is not stored raises
\* CategoriesNotFoundError with exactly all the missing identifiers and
\* deletes no category, whatever the chunk size.
C20_DeleteCategoriesAllOrNothing ==
    [][(/\ last'.op = "delete_categories"
        /\ MissingCategories(last'.identifiers, session) # {})
          => /\ last'.err = "CategoriesNotFoundError"
             /\ last'.ids = MissingCategories(last'.identifiers, session)
             /\ session'.category = session.category]_vars

\* a record of the file matches the request: it is tagged with a requested
\* category or with a subcategory of a requested archive-level category
RecordMatches(raw, categories) ==
    \E c \in categories :
        \/ Str(c.identifier) \in Range(raw.categories)
        \/ /\ c.identifier.subcategory = NULL
           /\ \E sub \in c.subcategories : Str(sub.identifier) \in Range(raw.categories)

\* the day d lies within the inclusive bounds, an omitted bound allowing all
WithinDates(d, from_date, to_date) ==
    /\ from_date = NoDate \/ from_date <= d
    /\ to_date = NoDate \/ d <= to_date

\* C21: fetch_historical returns exactly the records that match the
\* requested categories (an archive-level category matching its
\* subcategories too) and are dated within [from_date, to_date], both bounds
\* inclusive, an omitted bound imposing nothing: a DTO per such record's
\* arxiv_id and no other DTO.
C21_HistoricalFetchFilters ==
    json.pc = "done"
      => LET wanted == {i \in DOMAIN json.file :
                          /\ RecordMatches(json.file[i], json.given)
                          /\ WithinDates(json.file[i].update_date,
                                         json.from_date, json.to_date)}
         IN /\ ArxivIdsOf(json.entries) = {json.file[i].id : i \in wanted}
            /\ \A e \in json.entries :
                 \E i \in wanted : e = JsonToPaperDto(json.file[i])

\* papers dated on days 1.., the archive physics requested from day 2 to
\* day 4: the papers of days 2, 3 and 4 came back
C21_Witness ==
    /\ json.pc = "done"
    /\ json.file = JsonDayFile
    /\ Identifiers(json.given) = {Physics}
    /\ json.from_date = 2
    /\ json.to_date = 4
    /\ ArxivIdsOf(json.entries) = {"2", "3", "4"}

\* C22: an adapter that meets a record lacking a required field raises
\* PaperMissingFieldError carrying the offending raw record; here for
\* JSONPaperExtractor.fetch_historical.
C22_MissingFieldRaisesPaperMissingFieldError ==
    json.pc = "raised"
      => /\ json.err = "PaperMissingFieldError"
         /\ json.raw = json.file[json.line]

\* C23: for every string of one or two '.'-separated parts,
\* str(CategoryIdentifier.from_string(s)) is s, and from_string of the
\* printed identifier is the identifier.
C23_FromStringRoundTrips ==
    conv.pc = "printed"
      => /\ conv.str = conv.category_string
         /\ conv.again = conv.identifier

\* a turn of the loop of fetch_latest that fetched and did not raise
FetchTurn ==
    /\ rss.pc = "running"
    /\ rss'.pc = "running"
    /\ rss'.fetches = rss.fetches + 1

\* the turn appended two work items to the queue
SplitTurn == FetchTurn /\ Len(rss'.categories_queue) = Len(rss.categories_queue) + 1

\* C24: a fetched work item is split if and only if its result holds exactly
\* RSS_FEED_LIMIT entries and the item holds two or more categories or one
\* category whose subcategory is null; otherwise the queue only loses the
\* item.
C24_SplitDecision ==
    [][FetchTurn
         => LET item == Head(rss.categories_queue)
            IN /\ SplitTurn
                    <=> /\ rss'.result_len = RSS_FEED_LIMIT
                        /\ \/ Cardinality(item) >= 2
                           \/ /\ Cardinality(item) = 1
                              /\ \A c \in item : c.identifier.subcategory = NULL
               /\ ~SplitTurn => rss'.categories_queue = Tail(rss.categories_queue)]_vars

\* a single category with a subcategory returned exactly the cap and the run
\* returned after this one fetch
C24_Witness ==
    /\ rss.pc = "done"
    /\ rss.fetches = 1
    /\ rss.splits = 0
    /\ rss.result_len = RSS_FEED_LIMIT
    /\ Cardinality(rss.given) = 1
    /\ \A c \in rss.given : c.identifier.subcategory # NULL

\* C25: when a work item is split, S is the subcategories of a single
\* category or the item of two or more categories itself; two sets are
\* appended to the queue, of floor(|S|/2) and ceil(|S|/2) categories,
\* disjoint and with union S.
C25_SplitHalves ==
    [][SplitTurn
         => LET item == Head(rss.categories_queue)
                S == IF Cardinality(item) = 1
                     THEN UNION {c.subcategories : c \in item}
                     ELSE item
                queue == rss'.categories_queue
                first == queue[Len(queue) - 1]
                second == queue[Len(queue)]
            IN /\ SubSeq(queue, 1, Len(queue) - 2) = Tail(rss.categories_queue)
               /\ Cardinality(first) = Cardinality(S) \div 2
               /\ Cardinality(second) = Cardinality(S) - (Cardinality(S) \div 2)
               /\ first \cap second = {}
               /\ first \cup second = S]_vars

\* a work item of three categories was split into one of one and one of two
C25_Witness ==
    /\ rss.pc = "running"
    /\ rss.fetches = 1
    /\ rss.splits = 1
    /\ Cardinality(rss.given) = 3
    /\ Len(rss.categories_queue) = 2
    /\ Cardinality(rss.categories_queue[1]) = 1
    /\ Cardinality(rss.categories_queue[2]) = 2

\* C26: the progress total is the number of work items enqueued so far, one
\* plus two for each split; the processed count never exceeds it; when the
\* run returns, processed = total = the number of fetches: one without a
\* split, three after one split.
C26_ProgressCountsWorkItems ==
    rss.pc # "none"
      => /\ rss.total = 1 + 2 * rss.splits
         /\ rss.n <= rss.total
         /\ rss.pc = "running" => rss.total = rss.n + Len(rss.categories_queue)
         /\ rss.pc = "done"
              => /\ rss.n = rss.total
                 /\ rss.total = rss.fetches
                 /\ rss.splits = 0 => rss.fetches = 1
                 /\ rss.splits = 1 => rss.fetches = 3

\* a single archive-level category hit the cap once and the run returned
\* after three fetches
C26_Witness ==
    /\ rss.pc = "done"
    /\ Cardinality(rss.given) = 1
    /\ \A c \in rss.given : c.identifier.subcategory = NULL
    /\ rss.splits = 1
    /\ rss.fetches = 3
    /\ rss.n = 3

\* C29: when the category set passed to fetch_latest is not empty, no work
\* item of the run is empty: no split enqueues an empty set of categories.
C29_NoEmptyWorkItem ==
    rss.given # {} => \A i \in DOMAIN rss.categories_queue : rss.categories_queue[i] # {}

\* C30: when fetch_latest or fetch_historical has returned, the set object
\* the caller passed holds the categories it held at the call.
C30_CallerSetUnchanged ==
    /\ rss.pc = "done" => rss.caller = rss.given
    /\ json.pc = "done" => json.categories = json.given

\* the categories a read of the view s materializes: by get_category, by
\* list_categories and as the categories of the papers of list_papers
Materialized(s) ==
    Range(list_categories(s))
    \cup UNION {get_category(s, i) : i \in RepoIdentifiers}
    \cup UNION {p.categories : p \in Range(list_papers(s))}

\* the persisted categories of an archive that have a subcategory
PersistedSubcategories(s, archive) ==
    {Category(CategoryIdentifier(r.archive, r.subcategory), r.archive_name,
              r.category_name, r.description, {}) :
        r \in {q \in s.category : q.archive = archive /\ q.subcategory # NULL}}

\* C27: after any sequence of category upserts and deletes, every category
\* read from the repository has as subcategories exactly the persisted
\* categories of its archive that have a subcategory when its own
\* subcategory is null, and none otherwise.
C27_SubcategoriesAreDerived ==
    \A c \in Materialized(session) :
        c.subcategories = IF c.identifier.subcategory = NULL
                          THEN PersistedSubcategories(session, c.identifier.archive)
                          ELSE {}

\* after the first category row was deleted and later ones were stored, a
\* paper's archive-level category is read with a subcategory, and a category
\* with a subcategory is read too
C27_Witness ==
    /\ \A r \in session.category : r.id > 1
    /\ \E p \in Range(list_papers(session)) : \E c \in p.categories :
          c.identifier.subcategory = NULL /\ c.subcategories # {}
    /\ \E c \in Range(list_categories(session)) : c.identifier.subcategory # NULL

\* the index of the most recent h4 element before element j that no h2 or
\* h3 element follows, 0 when there is none
CurrentCategoryHeader(elements, j) ==
    LET headers == {k \in 1..(j - 1) :
                      /\ elements[k].name = "h4"
                      /\ \A m \in (k + 1)..(j - 1) : elements[m].name \notin {"h2", "h3"}}
    IN IF headers = {} THEN 0 ELSE Max(headers)

\* C28: over the h2, h3, h4 and p elements of the page, a description
\* paragraph raises CategoryParseError exactly when no category header was
\* parsed since the most recent group or archive header, and otherwise
\* yields a DTO with the archive and subcategory of the most recent category
\* header; an unparsable category header raises; and the result holds an
\* archive-level DTO for the archive of every DTO with a subcategory.
C28_TaxonomyPageParsing ==
    LET elements == page.elements
        paragraphs == {j \in 1..page.i : elements[j].name = "p"}
        fails(j) ==
            \/ elements[j].name = "p" /\ CurrentCategoryHeader(elements, j) = 0
            \/ elements[j].name = "h4" /\ ~CategoryPatternMatches(elements[j])
        yielded(j, dto) ==
            LET header == elements[CurrentCategoryHeader(elements, j)]
            IN /\ dto.archive = header.code[1]
               /\ dto.subcategory = IF Len(header.code) = 2 THEN header.code[2] ELSE NULL
               /\ dto.description = elements[j].text
    IN /\ page.pc = "raised" <=> (page.i >= 1 /\ fails(page.i))
       /\ page.pc \in {"parsing", "done"}
            => /\ \A j \in paragraphs : \E dto \in page.categories : yielded(j, dto)
               /\ \A dto \in page.categories : \E j \in paragraphs : yielded(j, dto)
       /\ page.pc = "done"
            => /\ page.categories \subseteq page.result
               /\ \A dto \in page.result :
                    dto.subcategory # NULL
                      => \E a \in page.result :
                           a.archive = dto.archive /\ a.subcategory = NULL

\* a page was parsed to its end: a category with a subcategory was yielded
\* after an archive header, and the result holds the archive-level DTO made
\* for it
C28_Witness ==
    /\ page.pc = "done"
    /\ \E j \in DOMAIN page.elements : page.elements[j].name = "h3"
    /\ \E dto \in page.categories : dto.subcategory # NULL
    /\ \E a \in page.result \ page.categories : a.subcategory = NULL

====
